---- MODULE Spec2Model ----
(***************************************************************************)
(* Model of com_interfaces (iunknown.py and the concrete interfaces):      *)
(*   - declaration time: @method (signature extraction) and @interface     *)
(*     (dispatch-table compilation),                                       *)
(*   - instantiation time: IUnknown.__init__ (activation and binding),     *)
(*     query_interface, bound method calls and __del__.                    *)
(***************************************************************************)
EXTENDS Integers, Sequences, FiniteSets, TLC

VARIABLES
    func,       \* SpecSig: the function a @method(index) decorator is applied to
    decorated,  \* SpecSig: <<>> before, <<func with __com_func__>> after decoration
    classes,    \* SpecDecl: class objects bound in the module namespace
    decl,       \* SpecDecl: the class statement processed last and what @interface did
    warnings,   \* SpecDecl: messages passed to logging.warning
    handles,    \* Spec: the IUnknown instances (COM object handles)
    objects,    \* Spec: the native objects and their reference counts
    lastCall,   \* Spec: <<>> or <<the call the program made last through a bound method>>
    link        \* SpecLink: the activation of IShellLink.create_link (<<>> elsewhere)

vars == <<func, decorated, classes, decl, warnings, handles, objects, lastCall, link>>

(***************************************************************************)
(* Bounds of the model.                                                    *)
(***************************************************************************)
MaxParams == 2      \* parameters after self of a declared method (SpecSig)
MaxBases == 2       \* parents listed in a class statement (SpecDecl)
MaxMethodsEntries == 1  \* entries of a __methods__ dict (SpecDecl)
MaxHandles == 2     \* handles constructed in one run (Spec)
MaxObjects == 1     \* native objects activated in one run (Spec)
MaxRef == 2         \* cap of a native reference count (Spec)
MaxDels == 2        \* explicit calls of __del__ on one handle (SpecTeardown)

(***************************************************************************)
(* Type hints.  A type is [name, args]; args is what typing.get_args       *)
(* returns: the alternatives of a Union, () for a plain class.             *)
(***************************************************************************)
Plain(n) == [name |-> n, args |-> <<>>]

U(alts) == [name |-> "Union", args |-> alts]

NoHint == [name |-> "<unannotated>", args |-> <<>>]

get_args(tp) == tp.args

HRESULT == Plain("HRESULT")

c_void_p == Plain("c_void_p")

WINFUNCTYPE(restype, argtypes) == [restype |-> restype, argtypes |-> argtypes]

\* Mutant of FirstAlternative: takes the last alternative of a Union.
FirstAlternativeLast(i) ==
    IF get_args(i) # <<>> THEN get_args(i)[Len(get_args(i))] ELSE i

\* (get_args(i) or [i])[0]
FirstAlternative(i) ==
    IF get_args(i) # <<>> THEN get_args(i)[1] ELSE i

\* typing.get_type_hints(func): the annotated parameters in declaration
\* order, then 'return' when the return value is annotated.
get_type_hints(f) ==
    LET ps == SelectSeq(f.params, LAMBDA p : p.hint # NoHint)
        hs == [i \in 1..Len(ps) |-> [key |-> ps[i].name, type |-> ps[i].hint]]
    IN  IF f.ret # NoHint
        THEN Append(hs, [key |-> "return", type |-> f.ret])
        ELSE hs

\* type_hints.pop('return', None)
PopReturn(hints) == SelectSeq(hints, LAMBDA e : e.key # "return")

ComFunc(index, types) ==
    [index |-> index,
     args  |-> WINFUNCTYPE(HRESULT,
                   <<c_void_p>> \o [i \in 1..Len(types) |-> FirstAlternative(types[i])])]

\* @method(index) applied to func: sets func.__com_func__
method(index, f) ==
    LET type_hints == PopReturn(get_type_hints(f))
    IN  [f EXCEPT !.com_func =
            <<ComFunc(index, [i \in 1..Len(type_hints) |-> type_hints[i].type])>>]

(***************************************************************************)
(* The DT type aliases of the source.                                      *)
(***************************************************************************)
REFIID == U(<<Plain("POINTER(Guid)"), Plain("CArgObject")>>)

void_pp == U(<<Plain("POINTER(c_void_p)"), Plain("CArgObject")>>)

LPCOLESTR == U(<<Plain("c_wchar_p"), Plain("str")>>)

LPCWSTR == U(<<Plain("c_wchar_p"), Plain("str")>>)

DWORD == U(<<Plain("DWORD"), Plain("int")>>)

BOOL == U(<<Plain("BOOL"), Plain("bool")>>)

INT == U(<<Plain("INT"), Plain("int")>>)

LPWSTR == Plain("WCHAR*MAX_PATH")

WIN32_FIND_DATA_p == U(<<Plain("POINTER(WIN32_FIND_DATA)"), Plain("CArgObject")>>)

PIDLIST_ABSOLUTE == Plain("POINTER(POINTER(ITEMIDLIST))")

\* def name(self, p1: t1, ..., pn: tn) [-> ret]
Def(name, types, ret) ==
    [name |-> name,
     params |-> <<[name |-> "self", hint |-> NoHint]>> \o
                [i \in 1..Len(types) |-> [name |-> <<"p1", "p2", "p3", "p4">>[i],
                                           hint |-> types[i]]],
     ret |-> ret,
     com_func |-> <<>>]

(***************************************************************************)
(* @interface: the dispatch-table compiler.                                *)
(* A class statement is [name, bases, dict, methods, iid, clsid,           *)
(* func_table]: dict maps the function members of the class body to        *)
(* [com_func]; methods is <<>> or <<the __methods__ dict>>; iid, clsid and *)
(* func_table are <<>> (not an attribute of this class) or <<value>>.      *)
(* A table maps method names to [index, args].                             *)
(***************************************************************************)
\* Guid(name): the structure ole32.CLSIDFromString fills from the text
Guid(name) == [Data |-> name]

EmptyTable == [k \in {} |-> [index |-> 0, args |-> WINFUNCTYPE(HRESULT, <<c_void_p>>)]]

\* getattr(cls.__bases__[0], '__func_table__', {}).copy()
ParentTable(base, reg) ==
    IF base \in DOMAIN reg /\ reg[base].func_table # <<>>
    THEN reg[base].func_table[1]
    ELSE EmptyTable

\* the members that are functions carrying __com_func__
DecoratedNames(dict) == {n \in DOMAIN dict : dict[n].com_func # <<>>}

\* Mutant of CollectDecorated: an inherited entry wins over an own one.
CollectDecoratedInheritedWins(table, dict) ==
    [k \in DOMAIN table \cup DecoratedNames(dict) |->
        IF k \in DOMAIN table THEN table[k] ELSE dict[k].com_func[1]]

\* for member_name, member in cls.__dict__.items(): ... __func_table__[member_name] = __com_func__
CollectDecorated(table, dict) ==
    [k \in DOMAIN table \cup DecoratedNames(dict) |->
        IF k \in DecoratedNames(dict) THEN dict[k].com_func[1] ELSE table[k]]

\* args = info.get('args', ()); if isinstance(args, dict): args = tuple(args.values())
InfoArgs(info) == IF info.args = <<>> THEN <<>> ELSE info.args[1].values

\* Mutant of CollectMethodsDict: a name already in the table is kept and only warned about.
CollectMethodsDictKeepsExisting(table, clsname, methods) ==
    [table |-> [k \in DOMAIN table \cup DOMAIN methods |->
                   IF k \in DOMAIN table THEN table[k]
                   ELSE ComFunc(methods[k].index, InfoArgs(methods[k]))],
     warned |-> {<<clsname, k>> : k \in DOMAIN methods \cap DOMAIN table}]

\* for member_name, info in __methods__.items(): warn if present, then set the entry
CollectMethodsDict(table, clsname, methods) ==
    [table |-> [k \in DOMAIN table \cup DOMAIN methods |->
                   IF k \in DOMAIN methods
                   THEN ComFunc(methods[k].index, InfoArgs(methods[k]))
                   ELSE table[k]],
     warned |-> {<<clsname, k>> : k \in DOMAIN methods \cap DOMAIN table}]

\* Mutant of BasesRejected: the number of parents is never checked.
BasesNeverRejected(bases) == FALSE

\* if len(cls.__bases__) != 1: raise TypeError
BasesRejected(bases) == Len(bases) # 1

\* interface_(cls) for @interface used bare (iidArg = clsidArg = <<>>) or as
\* @interface(iid, clsid=...); reg is the module namespace.
interface_(iidArg, clsidArg, cls, reg) ==
    LET c1 == IF iidArg # <<>> THEN [cls EXCEPT !.iid = <<Guid(iidArg[1])>>] ELSE cls
        c2 == IF clsidArg # <<>> THEN [c1 EXCEPT !.clsid = <<Guid(clsidArg[1])>>] ELSE c1
    IN  IF BasesRejected(cls.bases)
        THEN [raised |-> <<"TypeError">>, cls |-> c2, warned |-> {}]
        ELSE LET t1 == CollectDecorated(ParentTable(cls.bases[1], reg), cls.dict)
                 r  == IF cls.methods # <<>>
                       THEN CollectMethodsDict(t1, cls.name, cls.methods[1])
                       ELSE [table |-> t1, warned |-> {}]
             IN  [raised |-> <<>>,
                  cls    |-> [c2 EXCEPT !.func_table = <<r.table>>],
                  warned |-> r.warned]

\* a function member of a class body: a helper, or a declaration under @method
Helper(name) == Def(name, <<>>, NoHint)

Member(name, index, types, ret) == method(index, Def(name, types, ret))

ClassStmt(name, bases, dict, methods, iid, clsid, func_table) ==
    [name |-> name, bases |-> bases, dict |-> dict, methods |-> methods,
     iid |-> iid, clsid |-> clsid, func_table |-> func_table]

\* class IUnknown, as written in the source
IUnknownStmt ==
    ClassStmt("IUnknown", <<"object">>,
        [n \in {"__init__", "query_interface", "QueryInterface", "AddRef",
                "Release", "__del__", "is_accessible"} |->
            CASE n = "QueryInterface" -> Member(n, 0, <<REFIID, void_pp>>, HRESULT)
              [] n = "AddRef"         -> Member(n, 1, <<>>, HRESULT)
              [] n = "Release"        -> Member(n, 2, <<>>, HRESULT)
              [] OTHER                -> Helper(n)],
        <<>>,
        <<Guid("{00000000-0000-0000-C000-000000000046}")>>,
        <<>>,
        <<EmptyTable>>)

IUnknownDecl == interface_(<<>>, <<>>, IUnknownStmt, <<>>)

\* what the module namespace keeps of a class: its attributes the library reads
ClassObject(cls) ==
    [bases |-> cls.bases, iid |-> cls.iid, clsid |-> cls.clsid,
     func_table |-> cls.func_table]

Bind(reg, name, obj) ==
    [k \in DOMAIN reg \cup {name} |-> IF k = name THEN obj ELSE reg[k]]

(***************************************************************************)
(* SpecDecl: class statements under @interface, one after the other.       *)
(***************************************************************************)
DeclNames == <<"IA", "IB">>

DeclMethodNames == {"Release", "Method1"}

\* the function members a class body may hold under one name
OwnKinds == {"helper", "method3", "method4"}

OwnMember(n, kind) ==
    CASE kind = "helper"  -> Helper(n)
      [] kind = "method3" -> Member(n, 3, <<LPCWSTR>>, NoHint)
      [] kind = "method4" -> Member(n, 4, <<DWORD, INT>>, HRESULT)

OwnDicts ==
    UNION {{[n \in S |-> OwnMember(n, choice[n])] : choice \in [S -> OwnKinds]} :
              S \in SUBSET DeclMethodNames}

\* the entries a __methods__ dict may hold under one name (module docstring)
MethodsInfos ==
    {[index |-> 1, args |-> <<[form |-> "dict", values |-> <<U(<<Plain("HWND"), Plain("int")>>)>>]>>],
     [index |-> 5, args |-> <<[form |-> "tuple", values |-> <<Plain("HWND"), Plain("INT")>>]>>],
     [index |-> 6, args |-> <<>>]}

MethodsDicts ==
    UNION {[S -> MethodsInfos] :
              S \in {T \in SUBSET DeclMethodNames : Cardinality(T) <= MaxMethodsEntries}}

\* the class and its ancestors, along the single parent each bound class has
RECURSIVE Ancestors(_, _)
Ancestors(c, reg) ==
    IF c \in DOMAIN reg
    THEN {c} \cup Ancestors(reg[c].bases[1], reg)
    ELSE {c}

\* parent lists Python accepts: distinct, and none listed before its own subclass
BaseLists(reg) ==
    {bs \in UNION {[1..n -> DOMAIN reg \cup {"object"}] : n \in 1..MaxBases} :
        \A i, j \in 1..Len(bs) : i < j => bs[i] \notin Ancestors(bs[j], reg)}

DecoratorArgs ==
    {[iid |-> <<>>, clsid |-> <<>>],
     [iid |-> <<"{000214F9-0000-0000-C000-000000000046}">>,
      clsid |-> <<"{00021401-0000-0000-C000-000000000046}">>]}

Unbound(reg) == {i \in 1..Len(DeclNames) : DeclNames[i] \notin DOMAIN reg}

NextName(reg) == DeclNames[CHOOSE i \in Unbound(reg) : \A j \in Unbound(reg) : i <= j]

InitDecl ==
    /\ classes = Bind(<<>>, "IUnknown", ClassObject(IUnknownDecl.cls))
    /\ decl = [stmt |-> IUnknownStmt, args |-> [iid |-> <<>>, clsid |-> <<>>],
               result |-> IUnknownDecl]
    /\ warnings = IUnknownDecl.warned
    /\ func = <<>>
    /\ decorated = <<>>
    /\ handles = <<>>
    /\ objects = <<>>
    /\ lastCall = <<>>
    /\ link = <<>>

\* @interface... class name(bases): body.  The name is bound only when the
\* decorator returns; an exception it raises ends the import of the module.
Declare(bases, dict, methods, args) ==
    /\ LET stmt == ClassStmt(NextName(classes), bases, dict, methods, <<>>, <<>>, <<>>)
           r    == interface_(args.iid, args.clsid, stmt, classes)
       IN  /\ decl' = [stmt |-> stmt, args |-> args, result |-> r]
           /\ warnings' = warnings \cup r.warned
           /\ classes' = IF r.raised = <<>>
                         THEN Bind(classes, stmt.name, ClassObject(r.cls))
                         ELSE classes
    /\ UNCHANGED <<func, decorated, handles, objects, lastCall, link>>

NextDecl ==
    /\ Unbound(classes) # {}
    /\ decl.result.raised = <<>>
    /\ \E bases \in BaseLists(classes), dict \in OwnDicts,
          methods \in {<<>>} \cup {<<m>> : m \in MethodsDicts}, args \in DecoratorArgs :
            Declare(bases, dict, methods, args)

SpecDecl == InitDecl /\ [][NextDecl]_vars

(***************************************************************************)
(* SpecSig: @method applied to one declared function.                      *)
(***************************************************************************)
SigTypes == {Plain("c_wchar_p"), Plain("DWORD"), LPCWSTR, DWORD, void_pp}

SigParamLists ==
    UNION {[1..n -> SigTypes] : n \in 0..MaxParams}

SigIndexes == {0, 5}

InitSig ==
    /\ func \in {[index |-> i, def |-> Def("Method", ts, r)] :
                    i \in SigIndexes, ts \in SigParamLists, r \in {NoHint, HRESULT}}
    /\ decorated = <<>>
    /\ classes = <<>>
    /\ decl = <<>>
    /\ warnings = {}
    /\ handles = <<>>
    /\ objects = <<>>
    /\ lastCall = <<>>
    /\ link = <<>>

Decorate ==
    /\ decorated = <<>>
    /\ decorated' = <<method(func.index, func.def)>>
    /\ UNCHANGED <<func, classes, decl, warnings, handles, objects, lastCall, link>>

NextSig == Decorate

SpecSig == InitSig /\ [][NextSig]_vars

(***************************************************************************)
(* Properties of the declaration-time part.                                *)
(***************************************************************************)
\* the native type a declared type stands for, stated on the shape of the hint
Resolved(t) == IF t.name = "Union" THEN t.args[1] ELSE t

\* status_code (*)(void*, T1..Tn)
ExpectedSig(types) ==
    [restype  |-> Plain("HRESULT"),
     argtypes |-> [i \in 1..(Len(types) + 1) |->
                      IF i = 1 THEN Plain("c_void_p") ELSE Resolved(types[i - 1])]]

\* the declared types of p1..pn, the parameters after self
DeclaredTypes(f) == [i \in 1..(Len(f.params) - 1) |-> f.params[i + 1].hint]

\* C7: the signature @method extracts from a method with parameters p1..pn
\* after self is status_code(void*, T1..Tn) in declaration order, Ti the first
\* alternative of a union and the declared type otherwise; the return
\* annotation adds no argument, and pointer-or-string resolves to the pointer.
C7_SignatureExtraction ==
    decorated # <<>> =>
        LET cf == decorated[1].com_func[1]
            ts == DeclaredTypes(func.def)
        IN  /\ cf.index = func.index
            /\ cf.args = ExpectedSig(ts)
            /\ Len(cf.args.argtypes) = Len(ts) + 1
            /\ \A i \in 1..Len(ts) :
                  ts[i] = U(<<Plain("c_wchar_p"), Plain("str")>>)
                      => cf.args.argtypes[i + 1] = Plain("c_wchar_p")

C7_Witness ==
    /\ decorated # <<>>
    /\ func.def.ret # NoHint
    /\ Len(func.def.params) = 3
    /\ func.def.params[2].hint = Plain("DWORD")
    /\ func.def.params[3].hint = U(<<Plain("c_wchar_p"), Plain("str")>>)
    /\ decorated[1].com_func[1].args.argtypes =
          <<Plain("c_void_p"), Plain("DWORD"), Plain("c_wchar_p")>>

\* the last class statement was accepted by @interface
Accepted == decl.result.raised = <<>>

DeclParentTable ==
    IF decl.stmt.bases[1] \in DOMAIN classes /\ decl.stmt.bases[1] # decl.stmt.name
    THEN classes[decl.stmt.bases[1]].func_table[1]
    ELSE <<>>

DeclTable == decl.result.cls.func_table[1]

\* names the class body declares under @method, and in __methods__
DeclOwn == {n \in DOMAIN decl.stmt.dict : decl.stmt.dict[n].com_func # <<>>}

DeclListed == IF decl.stmt.methods = <<>> THEN {} ELSE DOMAIN decl.stmt.methods[1]

ExpectedInfoEntry(info) ==
    [index |-> info.index,
     args  |-> ExpectedSig(IF info.args = <<>> THEN <<>> ELSE info.args[1].values)]

\* C5: the effective table of B(A) is A's effective table overridden and
\* extended by B's own entries by name: a name B declares maps to B's own
\* entry, never A's; a name only A has keeps A's entry.
C5_Shadowing ==
    Accepted =>
        /\ DOMAIN DeclTable = DOMAIN DeclParentTable \cup DeclOwn \cup DeclListed
        /\ \A n \in DeclOwn \ DeclListed :
              DeclTable[n] = decl.stmt.dict[n].com_func[1]
        /\ \A n \in DeclListed :
              DeclTable[n] = ExpectedInfoEntry(decl.stmt.methods[1][n])
        /\ \A n \in DOMAIN DeclParentTable \ (DeclOwn \cup DeclListed) :
              DeclTable[n] = DeclParentTable[n]

C5_Witness ==
    /\ Accepted
    /\ decl.stmt.name = "IB"
    /\ decl.stmt.bases = <<"IA">>
    /\ "Method1" \in DeclOwn \ DeclListed
    /\ "Method1" \in DOMAIN DeclParentTable
    /\ DeclParentTable["Method1"] # decl.stmt.dict["Method1"].com_func[1]
    /\ DeclTable["Method1"] = decl.stmt.dict["Method1"].com_func[1]
    /\ "Release" \in DOMAIN DeclParentTable \ (DeclOwn \cup DeclListed)
    /\ DeclTable["Release"] = DeclParentTable["Release"]
    /\ DeclTable["Release"].index # 2

\* C6: a class statement with two or more parents fails at declaration, with
\* no dispatch table attached and the class name never bound (so that no
\* instance of it can be made); one parent is accepted.
C6_SingleInheritance ==
    /\ Len(decl.stmt.bases) # 1 =>
          /\ decl.result.raised = <<"TypeError">>
          /\ decl.result.cls.func_table = <<>>
          /\ decl.stmt.name \notin DOMAIN classes
    /\ Len(decl.stmt.bases) = 1 =>
          /\ Accepted
          /\ decl.stmt.name \in DOMAIN classes
          /\ classes[decl.stmt.name].func_table # <<>>

C6_Witness ==
    /\ Len(decl.stmt.bases) = 2
    /\ DOMAIN decl.stmt.dict # {}
    /\ decl.result.raised = <<"TypeError">>
    /\ decl.stmt.name \notin DOMAIN classes

\* C8: every name listed in __methods__ ends up in the table with the index
\* and the argument list of the data; when the name was already in the table
\* (inherited, or declared by @method in the same class) the entry is
\* replaced and a warning is logged, without an error; otherwise no warning.
C8_MethodsDict ==
    (Len(decl.stmt.bases) = 1 /\ decl.stmt.methods # <<>>) =>
        /\ Accepted
        /\ \A n \in DeclListed :
              /\ DeclTable[n] = ExpectedInfoEntry(decl.stmt.methods[1][n])
              /\ <<decl.stmt.name, n>> \in warnings
                    <=> n \in DOMAIN DeclParentTable \cup DeclOwn

C8_Witness ==
    /\ Accepted
    /\ decl.stmt.bases = <<"IUnknown">>
    /\ "Method1" \in DeclOwn \cap DeclListed
    /\ DeclTable["Method1"] # decl.stmt.dict["Method1"].com_func[1]
    /\ decl.stmt.methods[1]["Method1"].args # <<>>
    /\ <<decl.stmt.name, "Method1">> \in warnings

(***************************************************************************)
(* The concrete interfaces, declared as in the source.                     *)
(***************************************************************************)
CLSID_ShellLink == "{00021401-0000-0000-C000-000000000046}"

IID_IPersistFile == "{0000010b-0000-0000-C000-000000000046}"

IID_IShellLink == "{000214F9-0000-0000-C000-000000000046}"

IPersistFileStmt ==
    ClassStmt("IPersistFile", <<"IUnknown">>,
        [n \in {"Load", "load", "Save"} |->
            CASE n = "Load" -> Member(n, 5, <<LPCOLESTR, DWORD>>, NoHint)
              [] n = "Save" -> Member(n, 6, <<LPCOLESTR, BOOL>>, NoHint)
              [] OTHER      -> Helper(n)],
        <<>>, <<Guid(IID_IPersistFile)>>, <<Guid(CLSID_ShellLink)>>, <<>>)

IShellLinkStmt ==
    ClassStmt("IShellLink", <<"IUnknown">>,
        [n \in {"GetPath", "get_path", "GetIDList", "get_id_list", "SetDescription",
                "SetWorkingDirectory", "SetIconLocation", "SetPath", "create_link"} |->
            CASE n = "GetPath" ->
                     Member(n, 3, <<LPWSTR, INT, WIN32_FIND_DATA_p, DWORD>>, NoHint)
              [] n = "GetIDList"           -> Member(n, 4, <<PIDLIST_ABSOLUTE>>, NoHint)
              [] n = "SetDescription"      -> Member(n, 7, <<LPCWSTR>>, NoHint)
              [] n = "SetWorkingDirectory" -> Member(n, 9, <<LPCWSTR>>, NoHint)
              [] n = "SetIconLocation"     -> Member(n, 17, <<LPCWSTR, INT>>, NoHint)
              [] n = "SetPath"             -> Member(n, 20, <<LPCWSTR>>, NoHint)
              [] OTHER                     -> Helper(n)],
        <<>>, <<>>, <<>>, <<>>)

\* the module namespace after the imports: IUnknown, IPersistFile, IShellLink
Registry ==
    LET r0 == Bind(<<>>, "IUnknown", ClassObject(IUnknownDecl.cls))
        r1 == Bind(r0, "IPersistFile",
                   ClassObject(interface_(<<>>, <<>>, IPersistFileStmt, r0).cls))
    IN  Bind(r1, "IShellLink",
             ClassObject(interface_(<<IID_IShellLink>>, <<CLSID_ShellLink>>,
                                    IShellLinkStmt, r1).cls))

\* attribute lookup on a class object along its parents: <<>> when it has none
RECURSIVE getattr(_, _)
getattr(c, attr) ==
    IF c \notin DOMAIN classes THEN <<>>
    ELSE IF classes[c][attr] # <<>> THEN classes[c][attr]
    ELSE getattr(classes[c].bases[1], attr)

func_table(c) == getattr(c, "func_table")[1]

(***************************************************************************)
(* The native side: pointers, memory, status codes.                        *)
(* An address is [kind, obj, view, slot].  An interface pointer is the     *)
(* "object" address of native object obj seen through the interface with   *)
(* IID view; the word at it is the "vtable" address of that view; word i   *)
(* of the vtable is the "function" address of slot i.                      *)
(***************************************************************************)
Null == [kind |-> "null", obj |-> 0, view |-> "", slot |-> 0]

Ptr(o, iid) == [kind |-> "object", obj |-> o, view |-> iid, slot |-> 0]

\* the machine word at index i from address p
Mem(p, i) ==
    IF p.kind = "object" /\ i = 0
    THEN [p EXCEPT !.kind = "vtable"]
    ELSE [p EXCEPT !.kind = "function", !.slot = i]

\* bool(c_void_p)
bool(p) == p # Null

\* HRESULT values: a failure (negative), S_OK, a success code other than S_OK
Statuses == {-1, 0, 1}

\* the check ctypes applies to an HRESULT result (oledll functions and
\* WINFUNCTYPE(HRESULT, ...) prototypes): a failure raises OSError
HresultRaises(status) == status < 0

\* Mutant of PointerItem: no guard against a NULL pointer.
PointerItemUnguarded(p, i) ==
    [raised |-> <<>>, read |-> {[at |-> p, index |-> i]}, value |-> Mem(p, i)]

\* pointer[i] of ctypes: ValueError on a NULL pointer, else the word read
PointerItem(p, i) ==
    IF p.kind = "null"
    THEN [raised |-> <<"ValueError">>, read |-> {}, value |-> Null]
    ELSE [raised |-> <<>>, read |-> {[at |-> p, index |-> i]}, value |-> Mem(p, i)]

\* what the native function at address f does to the reference counts when
\* called (ok: a QueryInterface call hands out a pointer); a call through a
\* stale pointer is undefined and is taken to leave the counts alone
NativeEffect(objs, f, ok) ==
    IF f.kind # "function" \/ f.obj \notin 1..Len(objs) THEN objs
    ELSE IF objs[f.obj].refs = 0 THEN objs
    ELSE CASE f.slot = 0 /\ ok -> [objs EXCEPT ![f.obj].refs = @ + 1]
           [] f.slot = 1       -> [objs EXCEPT ![f.obj].refs = @ + 1]
           [] f.slot = 2       -> [objs EXCEPT ![f.obj].refs = @ - 1]
           [] OTHER            -> objs

\* the reference counts stay within the cap of the model
WithinCap(objs) == \A o \in 1..Len(objs) : objs[o].refs <= MaxRef

(***************************************************************************)
(* Handles.                                                                *)
(***************************************************************************)
HandleClasses == {"IUnknown", "IPersistFile"}

NoHandle ==
    [st |-> "unborn", cls |-> "", arg |-> [given |-> FALSE, ptr |-> Null],
     via |-> [kind |-> "", parent |-> 0, status |-> 0],
     ptrset |-> FALSE, ptr |-> Null, methods |-> <<>>, err |-> <<>>, act |-> <<>>,
     derefs |-> {}, dels |-> 0, released |-> 0, collected |-> FALSE]

\* create_instance(clsid, iid): ole32.CoCreateInstance answers os = [status, ptr]
create_instance(clsid, iid, os) ==
    [call |-> [clsid |-> clsid, iid |-> iid, status |-> os.status, ptr |-> os.ptr],
     raised |-> IF HresultRaises(os.status) THEN <<"OSError">> ELSE <<>>,
     ptr |-> os.ptr]

\* Mutant of UsesArgument: the pointer argument is ignored.
UsesArgumentNever(arg) == FALSE

\* ptr or create_instance(...): the argument is used when it is truthy
UsesArgument(arg) == arg.given /\ bool(arg.ptr)

\* the entry of the table iterated last (the declarations are in slot order)
LastEntry(table) ==
    CHOOSE n \in DOMAIN table : \A m \in DOMAIN table : table[m].index <= table[n].index

\* Mutant of BoundCallables: every lambda sees the win_func of the last iteration.
BoundCallablesLateBinding(table, functions) ==
    [n \in DOMAIN table |->
        [f |-> PointerItem(functions, table[LastEntry(table)].index).value,
         sig |-> table[LastEntry(table)].args]]

\* for func_name, __com_opts__ in table: win_func = args(functions[index]);
\* setattr(self, func_name, lambda *args, f=win_func: f(self.ptr, *args))
BoundCallables(table, functions) ==
    [n \in DOMAIN table |->
        [f |-> PointerItem(functions, table[n].index).value, sig |-> table[n].args]]

\* IUnknown.__init__(self, ptr) for an instance of cls; os is what
\* CoCreateInstance answers if it is called
IUnknown__init__(cls, arg, via, os) ==
    LET h0 == [NoHandle EXCEPT !.cls = cls, !.arg = arg, !.via = via]
        clsid == getattr(cls, "clsid")
        iid == getattr(cls, "iid")
        ci == create_instance(clsid[1], iid[1], os)
        h1 == IF UsesArgument(arg)
              THEN [h0 EXCEPT !.ptrset = TRUE, !.ptr = arg.ptr]
              ELSE IF clsid = <<>> \/ iid = <<>>
              THEN [h0 EXCEPT !.st = "failed", !.err = <<"AttributeError">>]
              ELSE IF ci.raised # <<>>
              THEN [h0 EXCEPT !.st = "failed", !.err = ci.raised, !.act = <<ci.call>>]
              ELSE [h0 EXCEPT !.ptrset = TRUE, !.ptr = ci.ptr, !.act = <<ci.call>>]
        vtable == h1.ptr
        wk == PointerItem(vtable, 0)
        functions == wk.value
        table == func_table(cls)
    IN  IF h1.st = "failed" THEN h1
        ELSE IF wk.raised # <<>>
        THEN [h1 EXCEPT !.st = "failed", !.err = wk.raised]
        ELSE [h1 EXCEPT !.st = "bound",
                        !.methods = BoundCallables(table, functions),
                        !.derefs = wk.read \cup
                            UNION {PointerItem(functions, table[n].index).read :
                                      n \in DOMAIN table}]

\* a native call the library makes through the handle: counted when the
\* function called is the object's Release (slot 2)
Invoked(h, f) ==
    IF f.kind = "function" /\ f.slot = 2 THEN [h EXCEPT !.released = @ + 1] ELSE h

\* Mutant of IUnknown__del__: the pointer is never released.
IUnknown__del__NoRelease(h) ==
    [h |-> [h EXCEPT !.dels = @ + 1], call |-> <<>>]

\* IUnknown.__del__(self): if self.ptr: self.Release().  Without self.ptr
\* (a failed __init__) the AttributeError is ignored; without a bound
\* Release the class stub raises NotImplementedError, ignored as well.
IUnknown__del__(h) ==
    IF h.ptrset /\ bool(h.ptr) /\ "Release" \in DOMAIN h.methods
    THEN [h |-> Invoked([h EXCEPT !.dels = @ + 1], h.methods["Release"].f),
          call |-> <<h.methods["Release"].f>>]
    ELSE [h |-> [h EXCEPT !.dels = @ + 1], call |-> <<>>]

\* is_accessible(self)
is_accessible(h) == bool(h.ptr)

(***************************************************************************)
(* Spec: handles are constructed, used, queried and finalized.             *)
(***************************************************************************)
Init ==
    /\ handles = [h \in 1..MaxHandles |-> NoHandle]
    /\ objects = <<>>
    /\ lastCall = <<>>
    /\ link = <<>>
    /\ classes = Registry
    /\ decl = <<>>
    /\ warnings = {}
    /\ func = <<>>
    /\ decorated = <<>>

Unborn == {h \in 1..MaxHandles : handles[h].st = "unborn"}

NextHandle == CHOOSE h \in Unborn : \A k \in Unborn : h <= k

\* the handles the program holds a reference to
Live == {h \in 1..MaxHandles : handles[h].st = "bound" /\ ~handles[h].collected}

\* the HRESULT values of CoCreateInstance: S_OK or an error code (negative)
ActivationStatuses == {-1, 0}

\* what CoCreateInstance may answer for iid: a failure leaves the pointer
\* null; a success hands out a pointer to a new object (or, from a mock, null)
OsAnswers(iid) ==
    {[status |-> st, ptr |-> Null] : st \in ActivationStatuses} \cup
    {[status |-> st, ptr |-> Ptr(Len(objects) + 1, iid)] :
        st \in {x \in ActivationStatuses : x >= 0 /\ Len(objects) < MaxObjects}}

\* the answer of a CoCreateInstance call that is not made
NoAnswer == [status |-> 0, ptr |-> Null]

\* the native objects after __init__ made handle h
AfterInit(objs, h) ==
    IF h.act # <<>> /\ bool(h.act[1].ptr)
    THEN Append(objs, [clsid |-> h.act[1].clsid, refs |-> 1])
    ELSE objs

IidText(cls) == IF getattr(cls, "iid") = <<>> THEN "" ELSE getattr(cls, "iid")[1].Data

\* the pointer arguments a caller may pass to cls(ptr): none, or a pointer
\* to the cls view of an object that is alive
PtrArgs(cls) ==
    {[given |-> FALSE, ptr |-> Null]} \cup
    {[given |-> TRUE, ptr |-> Ptr(o, IidText(cls))] :
        o \in {x \in 1..Len(objects) : objects[x].refs > 0}}

\* h = cls(ptr)
Construct(cls, arg, os) ==
    /\ Unborn # {}
    /\ LET h == IUnknown__init__(cls, arg, [kind |-> "ctor", parent |-> 0, status |-> 0], os)
       IN  /\ handles' = [handles EXCEPT ![NextHandle] = h]
           /\ objects' = AfterInit(objects, h)
    /\ UNCHANGED <<lastCall, classes, decl, warnings, func, decorated>>

\* what the object's QueryInterface may answer for iid through pointer p
QiAnswers(p, iid) ==
    {[status |-> st, ptr |-> Null] : st \in Statuses} \cup
    {[status |-> st, ptr |-> Ptr(p.obj, iid)] :
        st \in {x \in Statuses : x >= 0 /\ p.obj \in 1..Len(objects) /\ objects[p.obj].refs > 0}}

\* h.query_interface(target):
\*   ptr = c_void_p(); self.QueryInterface(byref(IID.iid), byref(ptr)); return IID(ptr)
query_interface(h, target, qi, os) ==
    /\ h \in Live
    /\ LET self == handles[h]
           f == self.methods["QueryInterface"].f
           objs == NativeEffect(objects, f, bool(qi.ptr))
           self1 == Invoked(self, f)
       IN  /\ WithinCap(objs)
           /\ IF HresultRaises(qi.status)
              THEN /\ handles' = [handles EXCEPT ![h] = self1]
                   /\ objects' = objs
              ELSE /\ Unborn # {}
                   /\ LET new == IUnknown__init__(target, [given |-> TRUE, ptr |-> qi.ptr],
                                     [kind |-> "query", parent |-> h, status |-> qi.status], os)
                      IN  /\ handles' = [handles EXCEPT ![h] = self1, ![NextHandle] = new]
                          /\ objects' = AfterInit(objs, new)
    /\ UNCHANGED <<lastCall, classes, decl, warnings, func, decorated>>

\* the values a caller passes for the k declared parameters
ArgSeeds == {10}

CallArgs(k, seed) == [i \in 1..k |-> seed + i]

\* h.name(*args): lambda *args, f=win_func: f(self.ptr, *args)
BoundCall(h, name, args) ==
    [h |-> h, name |-> name, given |-> args,
     f |-> handles[h].methods[name].f,
     native |-> <<handles[h].ptr>> \o args]

\* a call of a bound method by the program
CallMethod(h, name, seed, ok) ==
    /\ h \in Live
    /\ name \in DOMAIN handles[h].methods
    /\ LET m == handles[h].methods[name]
           c == BoundCall(h, name, CallArgs(Len(m.sig.argtypes) - 1, seed))
           objs == NativeEffect(objects, c.f, ok)
       IN  /\ WithinCap(objs)
           /\ lastCall' = <<c>>
           /\ objects' = objs
    /\ UNCHANGED <<handles, classes, decl, warnings, func, decorated>>

\* the interpreter finalizes an instance nothing refers to any more: an
\* instance whose __init__ raised, or a handle the program dropped
Finalize(h) ==
    /\ handles[h].st \in {"bound", "failed"}
    /\ ~handles[h].collected
    /\ LET d == IUnknown__del__(handles[h])
       IN  /\ handles' = [handles EXCEPT ![h] = [d.h EXCEPT !.collected = TRUE]]
           /\ objects' = IF d.call = <<>> THEN objects
                         ELSE NativeEffect(objects, d.call[1], FALSE)
    /\ UNCHANGED <<lastCall, classes, decl, warnings, func, decorated>>

\* the program calls h.__del__() itself and keeps the handle
ExplicitDel(h) ==
    /\ h \in Live
    /\ handles[h].dels < MaxDels
    /\ LET d == IUnknown__del__(handles[h])
       IN  /\ handles' = [handles EXCEPT ![h] = d.h]
           /\ objects' = IF d.call = <<>> THEN objects
                         ELSE NativeEffect(objects, d.call[1], FALSE)
    /\ UNCHANGED <<lastCall, classes, decl, warnings, func, decorated>>

Next ==
    \/ UNCHANGED link /\
          \E cls \in HandleClasses :
             \E arg \in PtrArgs(cls) :
                \E os \in IF UsesArgument(arg) THEN {NoAnswer} ELSE OsAnswers(IidText(cls)) :
                   Construct(cls, arg, os)
    \/ UNCHANGED link /\
          \E h \in Live, target \in HandleClasses :
             \E qi \in QiAnswers(handles[h].ptr, IidText(target)) :
                \E os \in IF HresultRaises(qi.status) \/ bool(qi.ptr)
                           THEN {NoAnswer} ELSE OsAnswers(IidText(target)) :
                   query_interface(h, target, qi, os)
    \/ UNCHANGED link /\
          \E h \in Live, seed \in ArgSeeds :
             \E name \in DOMAIN handles[h].methods :
                \E ok \in IF handles[h].methods[name].f.slot = 0 THEN BOOLEAN ELSE {FALSE} :
                   CallMethod(h, name, seed, ok)
    \/ UNCHANGED link /\ \E h \in 1..MaxHandles : Finalize(h)

Spec == Init /\ [][Next]_vars

NextTeardown ==
    \/ Next
    \/ UNCHANGED link /\ \E h \in Live : ExplicitDel(h)

SpecTeardown == Init /\ [][NextTeardown]_vars

(***************************************************************************)
(* SpecLink: one activation of IShellLink.create_link on a bound handle.   *)
(* Handle 1 is self; link.trace lists the vtable calls made, in order.     *)
(***************************************************************************)
\* an Optional[str] argument: None is <<>>, the string s is <<s>>
Truthy(x) == x # <<>> /\ x[1] # ""

WorkingDirs == {<<>>, <<"">>, <<"workdir">>}

Descriptions == {<<"">>, <<"text">>}

\* Optional[Tuple[StrPath, int]]: None is <<>>
IconPaths == {<<>>, <<[path |-> "icon.ico", index |-> 0]>>}

LinkArgs ==
    [link_path : {"a.lnk"}, src_path : {"a.exe"}, description : Descriptions,
     icon_path : IconPaths, working_dir : WorkingDirs]

\* Mutant of create_link_calls: the description is set whatever its value.
create_link_calls_unconditional(a) ==
    <<[name |-> "SetPath", args |-> <<a.src_path>>]>>
    \o (IF Truthy(a.working_dir)
        THEN <<[name |-> "SetWorkingDirectory", args |-> <<a.working_dir[1]>>]>> ELSE <<>>)
    \o <<[name |-> "SetDescription", args |-> <<a.description[1]>>]>>
    \o (IF a.icon_path # <<>>
        THEN <<[name |-> "SetIconLocation",
                args |-> <<a.icon_path[1].path, a.icon_path[1].index>>]>> ELSE <<>>)

\* the calls create_link makes on self before query_interface, in program order
create_link_calls(a) ==
    <<[name |-> "SetPath", args |-> <<a.src_path>>]>>
    \o (IF Truthy(a.working_dir)
        THEN <<[name |-> "SetWorkingDirectory", args |-> <<a.working_dir[1]>>]>> ELSE <<>>)
    \o (IF Truthy(a.description)
        THEN <<[name |-> "SetDescription", args |-> <<a.description[1]>>]>> ELSE <<>>)
    \o (IF a.icon_path # <<>>
        THEN <<[name |-> "SetIconLocation",
                args |-> <<a.icon_path[1].path, a.icon_path[1].index>>]>> ELSE <<>>)

\* shell_link = IShellLink() succeeded on native object 1; create_link is entered
InitLink ==
    /\ classes = Registry
    /\ LET self == IUnknown__init__("IShellLink", [given |-> FALSE, ptr |-> Null],
                       [kind |-> "ctor", parent |-> 0, status |-> 0],
                       [status |-> 0, ptr |-> Ptr(1, IID_IShellLink)])
       IN  /\ handles = [h \in 1..MaxHandles |-> IF h = 1 THEN self ELSE NoHandle]
           /\ objects = AfterInit(<<>>, self)
    /\ lastCall = <<>>
    /\ link \in {[pc |-> "call", args |-> a, next |-> 1, trace |-> <<>>,
                  raised |-> <<>>, ppf |-> 0] : a \in LinkArgs}
    /\ decl = <<>>
    /\ warnings = {}
    /\ func = <<>>
    /\ decorated = <<>>

\* a vtable call as link.trace records it
Event(c, status) == [name |-> c.name, h |-> c.h, native |-> c.native, status |-> status]

\* self.SetPath(...), self.SetWorkingDirectory(...), self.SetDescription(...),
\* self.SetIconLocation(...): the next of them, answering status
LinkCall(status) ==
    /\ link.pc = "call"
    /\ LET cs == create_link_calls(link.args)
           c == BoundCall(1, cs[link.next].name, cs[link.next].args)
       IN  /\ lastCall' = <<c>>
           /\ objects' = NativeEffect(objects, c.f, FALSE)
           /\ link' = [link EXCEPT
                  !.trace = Append(@, Event(c, status)),
                  !.next = @ + 1,
                  !.raised = IF HresultRaises(status) THEN <<"OSError">> ELSE <<>>,
                  !.pc = IF HresultRaises(status) THEN "done"
                         ELSE IF link.next = Len(cs) THEN "query_interface" ELSE "call"]
    /\ UNCHANGED <<handles, classes, decl, warnings, func, decorated>>

\* ppf = self.query_interface(IPersistFile)
LinkQuery(qi, os) ==
    /\ link.pc = "query_interface"
    /\ query_interface(1, "IPersistFile", qi, os)
    /\ LET ev == [name |-> "QueryInterface", h |-> 1,
                  native |-> <<handles[1].ptr, IID_IPersistFile, qi.ptr>>,
                  status |-> qi.status]
       IN  link' = IF HresultRaises(qi.status)
                   THEN [link EXCEPT !.trace = Append(@, ev), !.raised = <<"OSError">>,
                                     !.pc = "done"]
                   ELSE IF handles'[NextHandle].st = "failed"
                   THEN [link EXCEPT !.trace = Append(@, ev),
                                     !.raised = handles'[NextHandle].err,
                                     !.ppf = NextHandle, !.pc = "return"]
                   ELSE [link EXCEPT !.trace = Append(@, ev), !.ppf = NextHandle,
                                     !.pc = "Save"]

\* ppf.Save(str(link_path), False)
LinkSave(status) ==
    /\ link.pc = "Save"
    /\ LET c == BoundCall(link.ppf, "Save", <<link.args.link_path, FALSE>>)
       IN  /\ lastCall' = <<c>>
           /\ objects' = NativeEffect(objects, c.f, FALSE)
           /\ link' = [link EXCEPT
                  !.trace = Append(@, Event(c, status)),
                  !.raised = IF HresultRaises(status) THEN <<"OSError">> ELSE <<>>,
                  !.pc = "return"]
    /\ UNCHANGED <<handles, classes, decl, warnings, func, decorated>>

\* create_link is left (by return or by the exception): nothing refers to the
\* instance query_interface made any more and it is finalized
LinkReturn ==
    /\ link.pc = "return"
    /\ Finalize(link.ppf)
    /\ LET d == IUnknown__del__(handles[link.ppf])
       IN  link' = [link EXCEPT
               !.pc = "done",
               !.trace = IF d.call = <<>> THEN @
                         ELSE Append(@, [name |-> "Release", h |-> link.ppf,
                                         native |-> <<handles[link.ppf].ptr>>,
                                         status |-> 0])]

NextLink ==
    \/ \E status \in Statuses : LinkCall(status)
    \/ \E qi \in QiAnswers(handles[1].ptr, IID_IPersistFile) :
          \E os \in IF HresultRaises(qi.status) \/ bool(qi.ptr)
                     THEN {NoAnswer} ELSE OsAnswers(IID_IPersistFile) :
             LinkQuery(qi, os)
    \/ \E status \in Statuses : LinkSave(status)
    \/ LinkReturn

SpecLink == InitLink /\ [][NextLink]_vars

(***************************************************************************)
(* SpecBalance: handles get their pointers from activation and from        *)
(* query_interface only and are dropped; the program passes no raw pointer *)
(* to a constructor and calls AddRef, Release and QueryInterface only      *)
(* through the library.                                                    *)
(***************************************************************************)
\* the bound methods that do not touch the reference count
PlainMethods(h) == DOMAIN handles[h].methods \ {"QueryInterface", "AddRef", "Release"}

NextBalance ==
    \/ UNCHANGED link /\
          \E cls \in HandleClasses :
             \E os \in OsAnswers(IidText(cls)) :
                Construct(cls, [given |-> FALSE, ptr |-> Null], os)
    \/ UNCHANGED link /\
          \E h \in Live, target \in HandleClasses :
             \E qi \in QiAnswers(handles[h].ptr, IidText(target)) :
                \E os \in IF HresultRaises(qi.status) \/ bool(qi.ptr)
                           THEN {NoAnswer} ELSE OsAnswers(IidText(target)) :
                   query_interface(h, target, qi, os)
    \/ UNCHANGED link /\
          \E h \in Live, seed \in ArgSeeds :
             \E name \in PlainMethods(h) : CallMethod(h, name, seed, FALSE)
    \/ UNCHANGED link /\ \E h \in 1..MaxHandles : Finalize(h)

SpecBalance == Init /\ [][NextBalance]_vars

(***************************************************************************)
(* Properties of the instantiation-time part.                              *)
(***************************************************************************)
Born == {h \in 1..MaxHandles : handles[h].st # "unborn"}

RECURSIVE SumReleased(_)
SumReleased(n) == IF n = 0 THEN 0 ELSE handles[n].released + SumReleased(n - 1)

\* C1: through a handle whose pointer is non-null the library invokes the
\* native Release exactly once, when the handle is finalized: not before, not
\* a second time; N finalized handles make N Release calls.  (Release calls
\* the program makes itself through h.Release() are not the library's.)
C1_ExactlyOneRelease ==
    /\ \A h \in Born :
          IF handles[h].ptrset /\ handles[h].ptr # Null
          THEN handles[h].released = (IF handles[h].collected THEN 1 ELSE 0)
          ELSE handles[h].released = 0
    /\ SumReleased(MaxHandles) =
          Cardinality({h \in Born : handles[h].collected /\ handles[h].ptr # Null})

C1_Witness ==
    /\ lastCall # <<>>
    /\ \E h1, h2 \in Born :
          /\ h1 # h2
          /\ handles[h2].via.kind = "query"
          /\ handles[h2].via.parent = h1
          /\ handles[h1].collected /\ handles[h1].released = 1
          /\ handles[h2].collected /\ handles[h2].released = 1

\* a failure status in the sense of COM (FAILED(hr)): the severity bit is set
FailureStatus(status) == status < 0

\* C2: construction without a (non-null) pointer calls the activation
\* primitive with (CLSID, IID) of the interface; when activation fails or
\* answers a null pointer, construction fails with an error, the handle is
\* never bound and no word is read through the null pointer.
C2_ActivationFailure ==
    \A h \in Born :
        ~(handles[h].arg.given /\ handles[h].arg.ptr # Null) =>
            /\ handles[h].cls = "IPersistFile" =>
                  /\ handles[h].act # <<>>
                  /\ handles[h].act[1].clsid.Data = "{00021401-0000-0000-C000-000000000046}"
                  /\ handles[h].act[1].iid.Data = "{0000010b-0000-0000-C000-000000000046}"
            /\ (handles[h].act = <<>> \/ FailureStatus(handles[h].act[1].status)
                    \/ handles[h].act[1].ptr = Null) =>
                  /\ handles[h].st = "failed"
                  /\ handles[h].err # <<>>
                  /\ DOMAIN handles[h].methods = {}
                  /\ handles[h].derefs = {}

C2_Witness ==
    \E h1, h2 \in Born :
        /\ ~handles[h1].arg.given
        /\ handles[h1].act # <<>> /\ FailureStatus(handles[h1].act[1].status)
        /\ handles[h1].st = "failed" /\ handles[h1].err = <<"OSError">>
        /\ ~handles[h2].arg.given
        /\ handles[h2].act # <<>> /\ handles[h2].act[1].status = 0
        /\ handles[h2].act[1].ptr = Null
        /\ handles[h2].st = "failed" /\ handles[h2].err = <<"ValueError">>

\* C3: when QueryInterface answers a non-zero status, query_interface raises
\* and constructs no handle of the target interface: every handle made by
\* query_interface comes from a QueryInterface call that answered zero.
C3_NonZeroStatusMakesNoHandle ==
    \A h \in Born : handles[h].via.kind = "query" => handles[h].via.status = 0

\* C4: a (non-null) pointer supplied to the constructor, by the caller or by
\* query_interface, becomes the handle's pointer as it is and no activation
\* is made; activation is made only when no such pointer is supplied.
C4_SuppliedPointerUsed ==
    \A h \in Born :
        /\ (handles[h].arg.given /\ handles[h].arg.ptr # Null) =>
              /\ handles[h].ptrset
              /\ handles[h].ptr = handles[h].arg.ptr
              /\ handles[h].act = <<>>
        /\ handles[h].act # <<>> =>
              (~handles[h].arg.given \/ handles[h].arg.ptr = Null)

C4_Witness ==
    \E h1, h2 \in Born :
        /\ handles[h1].act # <<>> /\ handles[h1].st = "bound"
        /\ handles[h2].via.kind = "query" /\ handles[h2].via.parent = h1
        /\ handles[h2].st = "bound"
        /\ handles[h2].cls = "IUnknown"
        /\ handles[h2].arg.ptr = Ptr(handles[h1].ptr.obj, "{00000000-0000-0000-C000-000000000046}")
        /\ handles[h2].ptr = handles[h2].arg.ptr
        /\ handles[h2].act = <<>>

\* the function pointer the native object keeps in slot i of the vtable
\* behind pointer p
SlotFunction(p, i) == [kind |-> "function", obj |-> p.obj, view |-> p.view, slot |-> i]

\* C9: a bound handle exposes, for every (name, slot, signature) of its
\* interface's table, a callable resolved from vtable[slot] read through the
\* first word at the object pointer, each entry from its own slot; calling
\* it with a1..ak makes the native call with (object pointer, a1..ak).
C9_BoundCallables ==
    /\ \A h \in Born :
          handles[h].st = "bound" =>
              LET t == classes[handles[h].cls].func_table[1]
                  p == handles[h].ptr
              IN  /\ DOMAIN handles[h].methods = DOMAIN t
                  /\ [at |-> p, index |-> 0] \in handles[h].derefs
                  /\ \A n \in DOMAIN t :
                        /\ handles[h].methods[n].f = SlotFunction(p, t[n].index)
                        /\ handles[h].methods[n].sig = t[n].args
                        /\ [at |-> [p EXCEPT !.kind = "vtable"], index |-> t[n].index]
                              \in handles[h].derefs
                  /\ \A n, m \in DOMAIN t :
                        t[n].index # t[m].index =>
                            handles[h].methods[n].f # handles[h].methods[m].f
    /\ lastCall # <<>> =>
          LET c == lastCall[1]
              t == classes[handles[c.h].cls].func_table[1]
          IN  /\ c.f = SlotFunction(handles[c.h].ptr, t[c.name].index)
              /\ c.native = <<handles[c.h].ptr>> \o c.given
              /\ Len(c.given) = Len(t[c.name].args.argtypes) - 1

C9_Witness ==
    /\ lastCall # <<>>
    /\ lastCall[1].name = "Save"
    /\ lastCall[1].f.slot = 6
    /\ Len(lastCall[1].native) = 3
    /\ lastCall[1].native[1] = handles[lastCall[1].h].ptr
    /\ handles[lastCall[1].h].methods["Release"].f.slot = 2
    /\ handles[lastCall[1].h].methods["Load"].f.slot = 5

\* C10: once __del__ has run on a handle with a non-null pointer the pointer
\* is cleared, so that the handle reports not accessible and a repeated
\* teardown invokes Release no second time.
C10_ReleasedIsTerminal ==
    \A h \in Born :
        handles[h].released > 0 =>
            /\ handles[h].ptr = Null
            /\ ~is_accessible(handles[h])
            /\ handles[h].released = 1

(***************************************************************************)
(* Properties of create_link.                                              *)
(***************************************************************************)
\* the place of a vtable call in the order the claim fixes
Rank(name) ==
    CASE name = "SetPath"             -> 1
      [] name = "SetWorkingDirectory" -> 2
      [] name = "SetDescription"      -> 3
      [] name = "SetIconLocation"     -> 4
      [] name = "QueryInterface"      -> 5
      [] name = "Save"                -> 6
      [] name = "Release"             -> 7

Called(name) == {i \in 1..Len(link.trace) : link.trace[i].name = name}

\* C11: create_link calls SetPath first; SetWorkingDirectory, SetDescription
\* and SetIconLocation only when their argument is non-empty and after
\* SetPath; QueryInterface for IPersistFile and then Save on the handle it
\* gave come after all Set* calls (only the Release of that handle's
\* finalization follows); no call is made after one that raised, so Save is
\* not called then.
C11_CreateLinkOrder ==
    /\ link.trace # <<>> => link.trace[1].name = "SetPath"
    /\ \A i, j \in 1..Len(link.trace) :
          i < j => Rank(link.trace[i].name) < Rank(link.trace[j].name)
    /\ Called("SetWorkingDirectory") # {} =>
          /\ link.args.working_dir \notin {<<>>, <<"">>}
          /\ Called("SetPath") # {}
    /\ Called("SetDescription") # {} =>
          /\ link.args.description # <<"">>
          /\ Called("SetPath") # {}
    /\ Called("SetIconLocation") # {} =>
          /\ link.args.icon_path # <<>>
          /\ Called("SetPath") # {}
    /\ link.pc \in {"query_interface", "Save", "return"} \/ Called("QueryInterface") # {} =>
          /\ Called("SetPath") # {}
          /\ Called("SetWorkingDirectory") # {} <=> link.args.working_dir \notin {<<>>, <<"">>}
          /\ Called("SetDescription") # {} <=> link.args.description # <<"">>
          /\ Called("SetIconLocation") # {} <=> link.args.icon_path # <<>>
    /\ \A i \in Called("QueryInterface") :
          /\ link.trace[i].h = 1
          /\ link.trace[i].native[1] = handles[1].ptr
          /\ link.trace[i].native[2] = "{0000010b-0000-0000-C000-000000000046}"
    /\ \A i \in Called("Save") :
          /\ Called("QueryInterface") = {i - 1}
          /\ link.trace[i].h = link.ppf
          /\ handles[link.ppf].via = [kind |-> "query", parent |-> 1,
                                      status |-> link.trace[i - 1].status]
          /\ handles[link.ppf].cls = "IPersistFile"
          /\ link.trace[i].native[1] = handles[link.ppf].ptr
          /\ \A k \in 1..(i - 1) : link.trace[k].status >= 0
    /\ \A i \in 1..Len(link.trace) :
          (link.trace[i].status < 0 /\ link.trace[i].name # "Save") => i = Len(link.trace)
    /\ (link.pc = "done" /\ link.raised # <<>> /\ link.trace[Len(link.trace)].name # "Release")
          => Called("Save") = {}

C11_Witness ==
    /\ link # <<>>
    /\ link.pc = "done"
    /\ link.raised = <<>>
    /\ Len(link.trace) = 7
    /\ \A i \in 1..7 : Rank(link.trace[i].name) = i
    /\ link.trace[6].native[1] = Ptr(1, "{0000010b-0000-0000-C000-000000000046}")

(***************************************************************************)
(* Properties of the reference counts.                                     *)
(***************************************************************************)
\* the handles the program holds whose pointer is to native object o
HandlesOn(o) == {h \in Live : handles[h].ptr.obj = o}

\* the handles ever bound to native object o
EverOn(o) == {h \in Born : handles[h].st = "bound" /\ handles[h].ptr.obj = o}

\* C12: every reference got from the OS (one per activation, one per
\* successful QueryInterface) belongs to exactly one handle and is released
\* by that handle's finalization: the reference count of a native object is
\* never below the number of live handles on it (it equals that number) and
\* is zero exactly when all its handles are finalized.
C12_ReferenceBalance ==
    /\ \A o \in 1..Len(objects) :
          /\ objects[o].refs >= Cardinality(HandlesOn(o))
          /\ objects[o].refs = Cardinality(HandlesOn(o))
          /\ objects[o].refs = 0 <=> \A h \in EverOn(o) : handles[h].collected
          /\ Cardinality({h \in EverOn(o) : handles[h].act # <<>>}) = 1
    /\ \A h \in Born :
          handles[h].st = "bound" =>
              /\ handles[h].ptr.obj \in 1..Len(objects)
              /\ \/ handles[h].act # <<>> /\ handles[h].act[1].ptr = handles[h].ptr
                 \/ /\ handles[h].act = <<>>
                    /\ handles[h].via.kind = "query"
                    /\ handles[h].arg.ptr = handles[h].ptr
              /\ handles[h].released = (IF handles[h].collected THEN 1 ELSE 0)

C12_Witness ==
    /\ Len(objects) >= 1
    /\ objects[1].refs = 0
    /\ \E h1, h2 \in EverOn(1) :
          /\ handles[h1].act # <<>>
          /\ handles[h2].via = [kind |-> "query", parent |-> h1, status |-> 0]
          /\ handles[h1].collected /\ handles[h1].released = 1
          /\ handles[h2].collected /\ handles[h2].released = 1

====
